---- MODULE Spec2Model ----
(***************************************************************************)
(* Message lifecycle engine of the WhatsApp notification backend           *)
(* (backend/main.py, backend/utils.py, backend/models.py,                  *)
(* backend/whatsapp_client.py).                                            *)
(*                                                                         *)
(* The database is one record `db` holding the five tables.  Every handler *)
(* is an operator from a database (and its request) to the database it     *)
(* commits; the actions apply these operators.  Timestamps (created_at,    *)
(* sent_at, ...) are left out: rows are created in id order, so "latest    *)
(* created_at" is "largest id".  POST /send-template is taken in steps, so *)
(* that the server can die inside its transaction.  Spec handles webhook   *)
(* objects one by one; SpecWebhook handles them in the payloads they come  *)
(* in, as the background tasks of one response.  SpecDispatch runs two     *)
(* dispatch tasks at a time, SpecCounters two status handlers whose read   *)
(* and commit are separate steps, and SpecEvents is the events store of    *)
(* backend/server.py.                                                      *)
(***************************************************************************)
EXTENDS Integers, Sequences, FiniteSets, TLC

\* ---------------------------------------------------------------- bounds
NumMembers == 2      \* rows of the members table
MaxCampaigns == 1    \* campaigns created in one behaviour
NumWorkers == 1      \* background dispatch tasks alive at the same time
MaxEvents == 3       \* webhook objects (status or message) handled in one behaviour
MaxBatch == 2        \* objects in the payload of one POST /webhook
NumDispatchers == 2  \* background dispatch tasks alive at the same time in
                     \* SpecDispatch
NumHandlers == 2     \* status handlers alive at the same time in SpecCounters
MaxPushes == 503     \* calls of server.push_event in one behaviour

Members == 1..NumMembers
Workers == 1..NumWorkers

\* ------------------------------------------------------------ null values
NULL == "NULL"       \* SQL NULL / Python None in a string-valued place
NoId == 0            \* None or a missing key in an id-valued place

\* ----------------------------------------------------------------- state
VARIABLES
    db,        \* the tables: members, campaigns, messages, responses, optouts
    tasks,     \* the background send_campaign_messages tasks, one per worker
    provider,  \* number of message ids the provider has issued so far
    events,    \* number of webhook objects handled so far
    session,   \* the open transaction of POST /send-template, if any
    batch,     \* the background tasks of a POST /webhook that are yet to run
    calls,     \* the status handlers that have read the database and not
               \* yet committed, one per handler thread
    server     \* server.py: the EVENTS buffer and the reply of GET /events

vars == <<db, tasks, provider, events, session, batch, calls, server>>

Min(S) == CHOOSE x \in S : \A y \in S : x <= y
Max(S) == CHOOSE x \in S : \A y \in S : x >= y

RECURSIVE SortedSeq(_)
SortedSeq(S) == IF S = {} THEN <<>> ELSE <<Min(S)>> \o SortedSeq(S \ {Min(S)})

\* models.MessageStatus
MessageStatus == {"queued", "sent", "delivered", "read", "failed"}

\* ------------------------------------------------------- utils: stop words
UpperCase == <<"A","B","C","D","E","F","G","H","I","J","K","L","M",
               "N","O","P","Q","R","S","T","U","V","W","X","Y","Z">>
LowerCase == <<"a","b","c","d","e","f","g","h","i","j","k","l","m",
               "n","o","p","q","r","s","t","u","v","w","x","y","z">>
Whitespace == {" ", "\t", "\n"}

\* str.lower() on one character
LowerChar(c) ==
    IF \E i \in 1..26 : UpperCase[i] = c
    THEN LowerCase[CHOOSE i \in 1..26 : UpperCase[i] = c]
    ELSE c

\* str.lower(): a text is a sequence of characters
Lower(t) == [i \in 1..Len(t) |-> LowerChar(t[i])]

RECURSIVE LStrip(_)
LStrip(t) == IF t # <<>> /\ Head(t) \in Whitespace THEN LStrip(Tail(t)) ELSE t

RECURSIVE RStrip(_)
RStrip(t) ==
    IF t # <<>> /\ t[Len(t)] \in Whitespace
    THEN RStrip(SubSeq(t, 1, Len(t) - 1))
    ELSE t

\* str.strip()
Strip(t) == RStrip(LStrip(t))

StopWords == {
    <<"s","t","o","p">>,
    <<"u","n","s","u","b","s","c","r","i","b","e">>,
    <<"c","a","n","c","e","l">>,
    <<"e","n","d">>,
    <<"q","u","i","t">> }

\* utils.is_stop_command, without the lowering (a variant of NormalizeText)
NormalizeTextNoLower(text) == Strip(text)

\* utils.is_stop_command, line 31: t = text.strip().lower()
NormalizeText(text) == Lower(Strip(text))

\* utils.is_stop_command
is_stop_command(text) ==
    IF text = <<>> THEN FALSE ELSE NormalizeText(text) \in StopWords

\* ------------------------------------------------ utils: webhook parsing
\* The None that extract_message_status returns
NoInfo == [whatsapp_message_id |-> NoId, status |-> "", error |-> NULL]

\* utils.extract_message_status.  status_data = [id, status, errors]; a
\* missing key is NoId / "" / <<>>, so an empty dict is the record of three
\* missing keys and is rejected by the second test as by the first.
extract_message_status(status_data) ==
    IF status_data.id = NoId \/ status_data.status = ""
    THEN NoInfo
    ELSE [whatsapp_message_id |-> status_data.id,
          status |-> status_data.status,
          error |-> IF status_data.errors # <<>> THEN status_data.errors[1] ELSE NULL]

\* utils.extract_button_payload.  message_data.interactive is the type of the
\* interactive dict ("" when there is none), message_data.button tells whether
\* there is a legacy button dict.  The result is the response_type, or NULL.
extract_button_payload(message_data) ==
    IF message_data.interactive = "button_reply" THEN "button_reply"
    ELSE IF message_data.interactive = "list_reply" THEN "list_reply"
    ELSE IF message_data.button THEN "button"
    ELSE NULL

\* Python str() of an optional string
Str(x) == IF x = NULL THEN "None" ELSE x

\* ------------------------------------------------------ callback handlers
\* The message lookup as a variant would do it that compares the row id
\* with the provider's id
MessagesByRowId(S, msg_id) == {i \in 1..Len(S.messages) : i = msg_id}

\* main.process_status_update, line 161: the rows the message query matches
MessagesByProviderId(S, msg_id) ==
    {i \in 1..Len(S.messages) : S.messages[i].whatsapp_message_id = msg_id}

\* main.process_status_update: the database after the handler's commit
process_status_update(S, status_data) ==
    LET info == extract_message_status(status_data)
        msg_id == info.whatsapp_message_id
        status == info.status
        found == MessagesByProviderId(S, msg_id)
    IN  IF info = NoInfo THEN S
        ELSE IF msg_id = NoId THEN S
        ELSE IF found = {} THEN S
        ELSE
          LET i == Min(found)
              c == S.messages[i].campaign_id
          IN  CASE status = "sent" ->
                     [S EXCEPT !.messages[i].status = "sent"]
                [] status = "delivered" ->
                     [S EXCEPT !.messages[i].status = "delivered",
                               !.campaigns[c].delivered_count = @ + 1]
                [] status = "read" ->
                     [S EXCEPT !.messages[i].status = "read",
                               !.campaigns[c].read_count = @ + 1]
                [] status = "failed" ->
                     [S EXCEPT !.messages[i].status = "failed",
                               !.messages[i].error_message = Str(info.error),
                               !.campaigns[c].failed_count = @ + 1]
                [] OTHER -> S

\* main.process_incoming_message, lines 200-224: the reply branch, which
\* records a structured reply of member `sender` against the member's latest
\* message row
RecordReply(S, sender, message_data) ==
    LET payload == extract_button_payload(message_data)
        mine == {i \in 1..Len(S.messages) : S.messages[i].member_id = sender}
    IN  IF payload = NULL THEN S
        ELSE IF mine = {} THEN S
        ELSE
          LET last_msg == Max(mine)
          IN  [S EXCEPT !.responses =
                  Append(@, [message_id |-> last_msg,
                             member_id |-> sender,
                             campaign_id |-> S.messages[last_msg].campaign_id,
                             response_type |-> payload])]

\* The stop branch as a variant would do it that does not return after the
\* opt-out and goes on to the reply branch
RecordOptOutAndReply(S, sender, message_data) ==
    RecordReply([S EXCEPT !.members[sender].is_opted_in = FALSE,
                          !.optouts = Append(@, [member_id |-> sender,
                                                 phone_number |-> sender,
                                                 reason |-> "stop"])],
                sender, message_data)

\* The stop branch as a variant would do it that flips the opt-in flag
RecordOptOutToggled(S, sender, message_data) ==
    [S EXCEPT !.members[sender].is_opted_in = ~@,
              !.optouts = Append(@, [member_id |-> sender,
                                     phone_number |-> sender,
                                     reason |-> "stop"])]

\* main.process_incoming_message, lines 193-198: the stop branch
RecordOptOut(S, sender, message_data) ==
    [S EXCEPT !.members[sender].is_opted_in = FALSE,
              !.optouts = Append(@, [member_id |-> sender,
                                     phone_number |-> sender,
                                     reason |-> "stop"])]

\* main.process_incoming_message: the database after the handler's commit.
\* A member's phone number is its id; any other number is no member's.
process_incoming_message(S, message_data) ==
    LET sender == message_data.from
    IN  IF sender = NoId THEN S
        ELSE IF sender \notin DOMAIN S.members THEN S
        ELSE IF is_stop_command(message_data.text)
        THEN RecordOptOut(S, sender, message_data)
        ELSE RecordReply(S, sender, message_data)

\* -------------------------------------------------------------- campaigns
\* The members a campaign is sent to, as a variant would choose them that
\* drops the opt-in test
AllMembers(S, request) == DOMAIN S.members

\* main.create_campaign_and_queue, line 311: the members query
SelectMembers(S, request) == {m \in DOMAIN S.members : S.members[m].is_opted_in}

\* main.create_campaign_and_queue, lines 315-321: the Campaign row
CampaignRow(members) ==
    [target_count |-> Cardinality(members),
     sent_count |-> 0,
     delivered_count |-> 0,
     read_count |-> 0,
     failed_count |-> 0,
     status |-> "queued"]

\* main.create_campaign_and_queue, lines 326-332: the Message row of member m
MessageRow(cid, m) ==
    [campaign_id |-> cid,
     member_id |-> m,
     status |-> "queued",
     whatsapp_message_id |-> NoId,
     error_message |-> NULL]

\* No transaction is open
NoSession ==
    [pc |-> "idle", auto_dispatch |-> FALSE, campaign_id |-> NoId,
     campaign |-> CampaignRow({}), todo |-> <<>>, rows |-> <<>>]

\* The transaction that was open when the server died has been rolled back
RolledBack == [NoSession EXCEPT !.pc = "rolled_back"]

\* The flush as a variant would do it that commits the Campaign row there
FlushCommits(S, campaign) == [S EXCEPT !.campaigns = Append(@, campaign)]

\* main.create_campaign_and_queue, line 323: db.flush() sends the INSERT of
\* the Campaign row inside the open transaction; the committed database is
\* as before
Flush(S, campaign) == S

\* main.create_campaign_and_queue, line 334: db.commit() makes the Campaign
\* row and the Message rows of the transaction visible at once
Commit(S, sess) ==
    [S EXCEPT !.campaigns = IF Len(@) < sess.campaign_id
                            THEN Append(@, sess.campaign) ELSE @,
              !.messages = @ \o sess.rows]

\* main.create_campaign_and_queue: [db: the database after the handler,
\* error: the HTTP error raised or NULL, dispatch: the campaign id handed to
\* the background task, or NoId]
create_campaign_and_queue(S, request) ==
    LET members == SelectMembers(S, request)
        cid == Len(S.campaigns) + 1
        campaign == CampaignRow(members)
        order == SortedSeq(members)
        rows == [k \in 1..Len(order) |-> MessageRow(cid, order[k])]
    IN  IF members = {}
        THEN [db |-> S, error |-> "No opted-in members", dispatch |-> NoId]
        ELSE [db |-> [S EXCEPT !.campaigns = Append(@, campaign),
                               !.messages = @ \o rows],
              error |-> NULL,
              dispatch |-> IF request.auto_dispatch THEN cid ELSE NoId]

\* ------------------------------------------------------------- dispatcher
\* What one call of the provider can end in: HTTP 2xx with a message id,
\* HTTP 2xx whose body names no message, HTTP >= 400, a transport exception
ProviderOutcomes == {"ok", "ok_no_id", "http_error", "exception"}

\* whatsapp_client.WhatsAppCloudClient.send_template_message_sync: the dict
\* it returns when the provider call ends in `outcome` and the provider's
\* next message id is `next_id`
send_template_message_sync(outcome, next_id) ==
    CASE outcome = "ok" ->
           [success |-> TRUE, message_id |-> next_id, error |-> NULL]
      [] outcome = "ok_no_id" ->
           [success |-> TRUE, message_id |-> NoId, error |-> NULL]
      [] outcome = "http_error" ->
           [success |-> FALSE, message_id |-> NoId, error |-> "error"]
      [] OTHER ->
           [success |-> FALSE, message_id |-> NoId, error |-> "error"]

\* The snapshot as a variant would take it that drops the status test
AllMessagesOf(S, campaign_id) ==
    SortedSeq({i \in 1..Len(S.messages) : S.messages[i].campaign_id = campaign_id})

\* main.send_campaign_messages, lines 395-404: the snapshot of queued
\* messages of the campaign, in row order
QueuedMessages(S, campaign_id) ==
    SortedSeq({i \in 1..Len(S.messages) :
                  /\ S.messages[i].campaign_id = campaign_id
                  /\ S.messages[i].status = "queued"})

\* main.send_campaign_messages, lines 389-391
MarkSending(S, campaign_id) == [S EXCEPT !.campaigns[campaign_id].status = "sending"]

\* One pass of the loop body as a variant would do it that records no error
\* detail for a failed send
SendOneNoDetail(S, c, i, res, raised) ==
    IF ~raised /\ res.success
    THEN [S EXCEPT !.messages[i].status = "sent",
                   !.messages[i].whatsapp_message_id = res.message_id,
                   !.campaigns[c].sent_count = @ + 1]
    ELSE [S EXCEPT !.messages[i].status = "failed",
                   !.campaigns[c].failed_count = @ + 1]

\* One pass of the loop body as a variant would do it that commits the
\* message and leaves the counters to the end of the run
SendOneUncounted(S, c, i, res, raised) ==
    IF ~raised /\ res.success
    THEN [S EXCEPT !.messages[i].status = "sent",
                   !.messages[i].whatsapp_message_id = res.message_id]
    ELSE [S EXCEPT !.messages[i].status = "failed",
                   !.messages[i].error_message = "error"]

\* main.send_campaign_messages, lines 406-427: one pass of the loop body on
\* message i of campaign c.  `raised` says that the try block raised before
\* the provider's result was looked at.
SendOne(S, c, i, res, raised) ==
    IF raised
    THEN [S EXCEPT !.messages[i].status = "failed",
                   !.messages[i].error_message = "error",
                   !.campaigns[c].failed_count = @ + 1]
    ELSE IF res.success
    THEN [S EXCEPT !.messages[i].status = "sent",
                   !.messages[i].whatsapp_message_id = res.message_id,
                   !.campaigns[c].sent_count = @ + 1]
    ELSE [S EXCEPT !.messages[i].status = "failed",
                   !.messages[i].error_message = Str(res.error),
                   !.campaigns[c].failed_count = @ + 1]

\* The end of send_campaign_messages as a variant would leave it that
\* forgets the final status
MarkSentForgotten(S, campaign_id) == S

\* main.send_campaign_messages, lines 429-430
MarkSent(S, campaign_id) == [S EXCEPT !.campaigns[campaign_id].status = "sent"]

\* What one pass of the loop body can meet: each outcome of the provider
\* call, and an exception raised in the try block
SendCases ==
    [outcome : ProviderOutcomes, raised : {FALSE}]
    \cup [outcome : {"ok"}, raised : {TRUE}]

RECURSIVE SendLoop(_, _, _, _, _)
\* main.send_campaign_messages, lines 406-427: the loop over the snapshot
\* `msgs`.  cases[i] is what the pass for message i meets, next_id the
\* provider's next message id.
SendLoop(S, c, msgs, cases, next_id) ==
    IF msgs = <<>> THEN S
    ELSE
      LET i == Head(msgs)
          res == send_template_message_sync(cases[i].outcome, next_id)
          issued == ~cases[i].raised /\ cases[i].outcome = "ok"
      IN  SendLoop(SendOne(S, c, i, res, cases[i].raised), c, Tail(msgs), cases,
                   IF issued THEN next_id + 1 ELSE next_id)

\* main.send_campaign_messages: the database after one uninterrupted run
send_campaign_messages(S, campaign_id, cases, next_id) ==
    IF campaign_id \notin DOMAIN S.campaigns THEN S
    ELSE
      LET sending == MarkSending(S, campaign_id)
      IN  MarkSent(SendLoop(sending, campaign_id,
                            QueuedMessages(sending, campaign_id), cases, next_id),
                   campaign_id)

IdleTask == [pc |-> "idle", campaign_id |-> NoId, msgs |-> <<>>]

\* BackgroundTasks.add_task(send_campaign_messages_task, campaign_id, ...)
AddTask(campaign_id) ==
    LET w == Min({x \in DOMAIN tasks : tasks[x].pc = "idle"})
    IN  [tasks EXCEPT ![w] = [pc |-> "added", campaign_id |-> campaign_id,
                              msgs |-> <<>>]]

\* ---------------------------------------------------------------- inputs
\* The segmentation attributes of member m: odd ids are active gold members
\* in Lahore, even ids expired silver members in Karachi
Profile(m) ==
    IF m % 2 = 1
    THEN [status |-> "active", city |-> "lahore", plan |-> "gold"]
    ELSE [status |-> "expired", city |-> "karachi", plan |-> "silver"]

\* schemas.SendTemplateRequest: the fields that select recipients and the
\* auto_dispatch switch
Requests ==
    [status_filter : {NULL, "active", "expired"},
     city_filter : {NULL, "lahore", "multan"},
     plan_filter : {NULL, "silver"},
     auto_dispatch : BOOLEAN]

StatusValues == {"sent", "delivered", "read", "failed", "deleted", ""}

\* the status objects of a webhook: ids the provider issued, one it did not,
\* and a missing id
StatusEvents ==
    [id : 0..(provider + 1), status : StatusValues, errors : {<<>>}]
    \cup [id : 0..(provider + 1), status : {"failed"}, errors : {<<"error">>}]

TextInputs == {
    <<>>,
    <<"h","i">>,
    <<"S","T","O","P">>,
    <<" ","e","n","d","\n">> }

\* the message objects of a webhook: every member's number, an unknown
\* number and a missing one
MessageEvents ==
    [from : 0..(NumMembers + 1),
     text : TextInputs,
     interactive : {"", "button_reply", "list_reply"},
     button : {FALSE}]
    \cup [from : 0..(NumMembers + 1),
          text : TextInputs,
          interactive : {"", "nfm_reply"},
          button : {TRUE}]

\* The handler threads of the webhook's background tasks
Handlers == 1..NumHandlers

\* The database before any row is inserted
EmptyDb ==
    [members |-> [m \in Members |->
                    [is_opted_in |-> TRUE,
                     status |-> Profile(m).status,
                     city |-> Profile(m).city,
                     plan |-> Profile(m).plan]],
     campaigns |-> <<>>,
     messages |-> <<>>,
     responses |-> <<>>,
     optouts |-> <<>>]

\* A handler thread with no status object in hand
IdleCall == [pc |-> "idle", status_data |-> [id |-> NoId, status |-> "",
                                             errors |-> <<>>],
             read |-> EmptyDb]

\* server.py, line 16: the EVENTS list of the started server.  `pushed`
\* counts the calls of push_event, `reply` is the list GET /events returned
\* last.
NoServer == [EVENTS |-> <<>>, pushed |-> 0, reply |-> <<>>]

\* ---------------------------------------------------------------- actions
Init ==
    /\ \E opted \in [Members -> BOOLEAN] :
         db = [members |-> [m \in Members |->
                              [is_opted_in |-> opted[m],
                               status |-> Profile(m).status,
                               city |-> Profile(m).city,
                               plan |-> Profile(m).plan]],
               campaigns |-> <<>>,
               messages |-> <<>>,
               responses |-> <<>>,
               optouts |-> <<>>]
    /\ tasks = [w \in Workers |-> IdleTask]
    /\ provider = 0
    /\ events = 0
    /\ session = NoSession
    /\ batch = <<>>
    /\ calls = [h \in Handlers |-> IdleCall]
    /\ server = NoServer

\* POST /send-template, lines 311-323: the members query, the HTTP 400 when
\* it is empty, the Campaign row and its flush
CreateBegin ==
    \E request \in Requests :
      LET members == SelectMembers(db, request)
          campaign == CampaignRow(members)
      IN  /\ session.pc \in {"idle", "rolled_back"}
          /\ Len(db.campaigns) < MaxCampaigns
          /\ IF members = {}
             THEN UNCHANGED <<db, session>>
             ELSE /\ db' = Flush(db, campaign)
                  /\ session' = [pc |-> "adding",
                                 auto_dispatch |-> request.auto_dispatch,
                                 campaign_id |-> Len(db.campaigns) + 1,
                                 campaign |-> campaign,
                                 todo |-> SortedSeq(members),
                                 rows |-> <<>>]
          /\ UNCHANGED <<tasks, provider, events, batch, calls, server>>

\* POST /send-template, lines 325-333: one pass of the loop over the members
CreateAddMessage ==
    /\ session.pc = "adding"
    /\ session.todo # <<>>
    /\ session' = [session EXCEPT
                     !.rows = Append(@, MessageRow(session.campaign_id,
                                                   Head(session.todo))),
                     !.todo = Tail(@)]
    /\ UNCHANGED <<db, tasks, provider, events, batch, calls, server>>

\* POST /send-template, lines 334-342: the commit and the background task
CreateCommit ==
    /\ session.pc = "adding"
    /\ session.todo = <<>>
    /\ session.auto_dispatch => \E w \in DOMAIN tasks : tasks[w].pc = "idle"
    /\ db' = Commit(db, session)
    /\ tasks' = IF session.auto_dispatch THEN AddTask(session.campaign_id)
                ELSE tasks
    /\ session' = NoSession
    /\ UNCHANGED <<provider, events, batch, calls, server>>

\* The server process dies and is started again: the open transaction is
\* rolled back and the background tasks are gone; the committed database
\* stays
Crash ==
    /\ \/ session.pc = "adding"
       \/ \E w \in DOMAIN tasks : tasks[w] # IdleTask
       \/ batch # <<>>
    /\ session' = IF session.pc = "adding" THEN RolledBack ELSE session
    /\ tasks' = [w \in DOMAIN tasks |-> IdleTask]
    /\ batch' = <<>>
    /\ UNCHANGED <<db, provider, events, calls, server>>

\* POST /campaigns/{campaign_id}/dispatch
DispatchCampaign ==
    \E campaign_id \in 1..MaxCampaigns :
      /\ \E w \in DOMAIN tasks : tasks[w].pc = "idle"
      /\ tasks' = AddTask(campaign_id)
      /\ UNCHANGED <<db, provider, events, session, batch, calls, server>>

\* send_campaign_messages, lines 385-404: up to the snapshot
DispatchStart(w) ==
    /\ tasks[w].pc = "added"
    /\ LET c == tasks[w].campaign_id
       IN  IF c \notin DOMAIN db.campaigns
           THEN /\ tasks' = [tasks EXCEPT ![w] = IdleTask]
                /\ UNCHANGED db
           ELSE /\ db' = MarkSending(db, c)
                /\ tasks' = [tasks EXCEPT ![w].pc = "loop",
                                          ![w].msgs = QueuedMessages(db, c)]
    /\ UNCHANGED <<provider, events, session, batch, calls, server>>

\* send_campaign_messages, lines 406-427: one message of the snapshot
DispatchMessage(w) ==
    /\ tasks[w].pc = "loop"
    /\ tasks[w].msgs # <<>>
    /\ \E outcome \in ProviderOutcomes, raised \in BOOLEAN :
         LET i == Head(tasks[w].msgs)
             res == send_template_message_sync(outcome, provider + 1)
         IN  /\ db' = SendOne(db, tasks[w].campaign_id, i, res, raised)
             /\ provider' = IF ~raised /\ outcome = "ok"
                            THEN provider + 1 ELSE provider
    /\ tasks' = [tasks EXCEPT ![w].msgs = Tail(@)]
    /\ UNCHANGED <<events, session, batch, calls, server>>

\* send_campaign_messages, lines 429-430
DispatchFinish(w) ==
    /\ tasks[w].pc = "loop"
    /\ tasks[w].msgs = <<>>
    /\ db' = MarkSent(db, tasks[w].campaign_id)
    /\ tasks' = [tasks EXCEPT ![w] = IdleTask]
    /\ UNCHANGED <<provider, events, session, batch, calls, server>>

\* process_status_update_task: one status object of a webhook
StatusUpdate ==
    \E status_data \in StatusEvents :
      /\ events < MaxEvents
      /\ events' = events + 1
      /\ db' = process_status_update(db, status_data)
      /\ UNCHANGED <<tasks, provider, session, batch, calls, server>>

\* process_incoming_message_task: one message object of a webhook
IncomingMessage ==
    \E message_data \in MessageEvents :
      /\ events < MaxEvents
      /\ events' = events + 1
      /\ db' = process_incoming_message(db, message_data)
      /\ UNCHANGED <<tasks, provider, session, batch, calls, server>>

Next ==
    \/ CreateBegin
    \/ CreateAddMessage
    \/ CreateCommit
    \/ Crash
    \/ DispatchCampaign
    \/ \E w \in Workers : DispatchStart(w)
    \/ \E w \in Workers : DispatchMessage(w)
    \/ \E w \in Workers : DispatchFinish(w)
    \/ StatusUpdate
    \/ IncomingMessage

Spec == Init /\ [][Next]_vars

\* --------------------------------------------------------- webhook batches
\* The objects in the payload of a POST /webhook.  Each status object and
\* each message object stands in a change of its own; `shape` tells whether
\* the object is a JSON object ("dict") or a value of another type
\* ("scalar").  An item of kind "change" is a change whose value is no JSON
\* object.
NoStatus == [id |-> NoId, status |-> "", errors |-> <<>>]
NoMessage == [from |-> NoId, text |-> <<>>, interactive |-> "", button |-> FALSE]

StatusItem(status_data) ==
    [kind |-> "status", shape |-> "dict",
     status_data |-> status_data, message_data |-> NoMessage]

MessageItem(message_data) ==
    [kind |-> "message", shape |-> "dict",
     status_data |-> NoStatus, message_data |-> message_data]

ScalarItem(kind) ==
    [kind |-> kind, shape |-> "scalar",
     status_data |-> NoStatus, message_data |-> NoMessage]

\* a delivered callback for the first provider id, a status object without
\* id, a stop command and a button reply of member 1, a message object
\* without sender, and one object of the wrong shape of each kind
BatchItems ==
    { StatusItem([id |-> 1, status |-> "delivered", errors |-> <<>>]),
      StatusItem([id |-> NoId, status |-> "delivered", errors |-> <<>>]),
      ScalarItem("status"),
      MessageItem([from |-> 1, text |-> <<"S","T","O","P">>,
                   interactive |-> "", button |-> FALSE]),
      MessageItem([from |-> 1, text |-> <<>>,
                   interactive |-> "button_reply", button |-> FALSE]),
      MessageItem([from |-> NoId, text |-> <<"h","i">>,
                   interactive |-> "", button |-> FALSE]),
      ScalarItem("message"),
      ScalarItem("change") }

Batches == UNION {[1..n -> BatchItems] : n \in 1..MaxBatch}

\* main.webhook_post, lines 121-129: the background tasks the loops add.
\* value.get raises on a change whose value is no JSON object; the except
\* clause of line 133 ends the handler, and the tasks added so far stay.
webhook_post(items) ==
    LET bad == {k \in 1..Len(items) :
                   items[k].kind = "change" /\ items[k].shape # "dict"}
        stop == IF bad = {} THEN Len(items) + 1 ELSE Min(bad)
    IN  SubSeq(items, 1, stop - 1)

\* The task raises: status_data.get in utils.extract_message_status (line
\* 107) and message_data.get in main.process_incoming_message (line 185)
\* raise AttributeError on a value that is no JSON object
TaskRaises(task) == task.shape # "dict"

\* main.process_status_update_task and main.process_incoming_message_task
RunOne(S, task) ==
    IF task.kind = "status"
    THEN process_status_update(S, task.status_data)
    ELSE process_incoming_message(S, task.message_data)

RECURSIVE RunTasks(_, _)
\* The background tasks of one response run one after the other in the order
\* they were added; the exception of a task ends the run, and the tasks
\* behind it are dropped.
RunTasks(S, ts) ==
    IF ts = <<>> THEN S
    ELSE IF TaskRaises(Head(ts)) THEN S
    ELSE RunTasks(RunOne(S, Head(ts)), Tail(ts))

\* POST /webhook
WebhookPost ==
    \E items \in Batches :
      /\ batch = <<>>
      /\ events + Len(items) <= MaxEvents
      /\ events' = events + Len(items)
      /\ batch' = webhook_post(items)
      /\ UNCHANGED <<db, tasks, provider, session, calls, server>>

\* The next background task of the webhook response
RunTask ==
    /\ batch # <<>>
    /\ IF TaskRaises(Head(batch))
       THEN batch' = <<>> /\ UNCHANGED db
       ELSE db' = RunOne(db, Head(batch)) /\ batch' = Tail(batch)
    /\ UNCHANGED <<tasks, provider, events, session, calls, server>>

NextWebhook ==
    \/ CreateBegin
    \/ CreateAddMessage
    \/ CreateCommit
    \/ Crash
    \/ \E w \in Workers : DispatchStart(w)
    \/ \E w \in Workers : DispatchMessage(w)
    \/ \E w \in Workers : DispatchFinish(w)
    \/ WebhookPost
    \/ RunTask

SpecWebhook == Init /\ [][NextWebhook]_vars

\* --------------------------------------------------- concurrent handlers
\* The commit of a session that read the database as `R` and holds the
\* objects as in `A`: the flush writes the attributes the session changed,
\* with the values it computed, over the rows as they are in `D` by then.
\* An attribute the session did not change is not written.
WriteBack(D, R, A) ==
    LET field(d, r, a) == IF a # r THEN a ELSE d
    IN  [D EXCEPT
          !.messages = [i \in DOMAIN D.messages |->
             IF i \notin DOMAIN R.messages THEN D.messages[i]
             ELSE [status |-> field(D.messages[i].status, R.messages[i].status,
                                    A.messages[i].status),
                   error_message |-> field(D.messages[i].error_message,
                                           R.messages[i].error_message,
                                           A.messages[i].error_message),
                   whatsapp_message_id |-> D.messages[i].whatsapp_message_id,
                   campaign_id |-> D.messages[i].campaign_id,
                   member_id |-> D.messages[i].member_id]],
          !.campaigns = [c \in DOMAIN D.campaigns |->
             IF c \notin DOMAIN R.campaigns THEN D.campaigns[c]
             ELSE [target_count |-> D.campaigns[c].target_count,
                   status |-> D.campaigns[c].status,
                   sent_count |-> D.campaigns[c].sent_count,
                   delivered_count |-> field(D.campaigns[c].delivered_count,
                                             R.campaigns[c].delivered_count,
                                             A.campaigns[c].delivered_count),
                   read_count |-> field(D.campaigns[c].read_count,
                                        R.campaigns[c].read_count,
                                        A.campaigns[c].read_count),
                   failed_count |-> field(D.campaigns[c].failed_count,
                                          R.campaigns[c].failed_count,
                                          A.campaigns[c].failed_count)]]]

\* A campaign for every member, created and dispatched with every send
\* accepted, before any callback
DispatchedDb ==
    LET request == CHOOSE r \in Requests : ~r.auto_dispatch
        created == create_campaign_and_queue(EmptyDb, request).db
        cases == [i \in 1..Len(created.messages) |->
                    [outcome |-> "ok", raised |-> FALSE]]
    IN  send_campaign_messages(created, 1, cases, 1)

\* the status objects of the callbacks that follow: the provider's ids with
\* the statuses that count
CounterEvents ==
    [id : 1..NumMembers, status : {"delivered", "read", "failed"},
     errors : {<<>>}]

InitCounters ==
    /\ db = DispatchedDb
    /\ tasks = [w \in Workers |-> IdleTask]
    /\ provider = NumMembers
    /\ events = 0
    /\ session = NoSession
    /\ batch = <<>>
    /\ calls = [h \in Handlers |-> IdleCall]
    /\ server = NoServer

\* process_status_update, lines 151-178: the handler thread h queries the
\* message and its campaign in a session of its own and assigns the new
\* status and the new counter value to the objects it loaded
StatusLoad(h) ==
    \E status_data \in CounterEvents :
      /\ calls[h].pc = "idle"
      /\ events < MaxEvents
      /\ events' = events + 1
      /\ calls' = [calls EXCEPT ![h] = [pc |-> "loaded",
                                        status_data |-> status_data,
                                        read |-> db]]
      /\ UNCHANGED <<db, tasks, provider, session, batch, server>>

\* process_status_update, line 180: db.commit()
StatusCommit(h) ==
    /\ calls[h].pc = "loaded"
    /\ db' = WriteBack(db, calls[h].read,
                       process_status_update(calls[h].read, calls[h].status_data))
    /\ calls' = [calls EXCEPT ![h] = IdleCall]
    /\ UNCHANGED <<tasks, provider, events, session, batch, server>>

NextCounters ==
    \/ \E h \in Handlers : StatusLoad(h)
    \/ \E h \in Handlers : StatusCommit(h)

SpecCounters == InitCounters /\ [][NextCounters]_vars

\* ------------------------------------------------------- events store
\* server.MAX_EVENTS
MAX_EVENTS == 500

\* push_event as a variant would do it that drops the newest events
push_event_keep_oldest(EVENTS, event) ==
    LET appended == Append(EVENTS, event)
    IN  IF Len(appended) > MAX_EVENTS
        THEN SubSeq(appended, 1, MAX_EVENTS)
        ELSE appended

\* server.push_event: the list after the call.  The del statement removes
\* the first len(EVENTS) - MAX_EVENTS elements.
push_event(EVENTS, event) ==
    LET appended == Append(EVENTS, event)
    IN  IF Len(appended) > MAX_EVENTS
        THEN SubSeq(appended, Len(appended) - MAX_EVENTS + 1, Len(appended))
        ELSE appended

\* server.get_events: the list in the reply.  The slice EVENTS[-limit:]
\* starts `limit` places before the end, or at the first element of a
\* shorter list.
get_events(EVENTS, limit) ==
    LET clamped == Max({1, Min({limit, 200})})
    IN  SubSeq(EVENTS, Max({1, Len(EVENTS) - clamped + 1}), Len(EVENTS))

\* the limit parameters of GET /events: below, at and above both ends of
\* the clamp, and at and above the size of the buffer
Limits == {-1, 0, 1, 2, 50, 199, 200, 201, 500, 501}

InitEvents ==
    /\ db = EmptyDb
    /\ tasks = [w \in Workers |-> IdleTask]
    /\ provider = 0
    /\ events = 0
    /\ session = NoSession
    /\ batch = <<>>
    /\ calls = [h \in Handlers |-> IdleCall]
    /\ server = NoServer

\* server.receive_webhook and server.send_message: push_event of the next
\* event, which is named by its arrival number
PushEvent ==
    /\ server.pushed < MaxPushes
    /\ server' = [EVENTS |-> push_event(server.EVENTS, server.pushed + 1),
                  pushed |-> server.pushed + 1,
                  reply |-> <<>>]
    /\ UNCHANGED <<db, tasks, provider, events, session, batch, calls>>

\* GET /events
GetEvents ==
    \E limit \in Limits :
      /\ server' = [server EXCEPT !.reply = get_events(server.EVENTS, limit)]
      /\ UNCHANGED <<db, tasks, provider, events, session, batch, calls>>

NextEvents ==
    \/ PushEvent
    \/ GetEvents

SpecEvents == InitEvents /\ [][NextEvents]_vars

\* ------------------------------------------------- concurrent dispatches
\* The server with room for NumDispatchers background dispatch tasks at a
\* time, as the thread pool gives it; no webhook arrives
InitDispatch ==
    /\ \E opted \in [Members -> BOOLEAN] :
         db = [members |-> [m \in Members |->
                              [is_opted_in |-> opted[m],
                               status |-> Profile(m).status,
                               city |-> Profile(m).city,
                               plan |-> Profile(m).plan]],
               campaigns |-> <<>>,
               messages |-> <<>>,
               responses |-> <<>>,
               optouts |-> <<>>]
    /\ tasks = [w \in 1..NumDispatchers |-> IdleTask]
    /\ provider = 0
    /\ events = 0
    /\ session = NoSession
    /\ batch = <<>>
    /\ calls = [h \in Handlers |-> IdleCall]
    /\ server = NoServer

NextDispatch ==
    \/ CreateBegin
    \/ CreateAddMessage
    \/ CreateCommit
    \/ DispatchCampaign
    \/ \E w \in DOMAIN tasks : DispatchStart(w)
    \/ \E w \in DOMAIN tasks : DispatchMessage(w)
    \/ \E w \in DOMAIN tasks : DispatchFinish(w)

SpecDispatch == InitDispatch /\ [][NextDispatch]_vars

\* ================================================================ claims
\* the status object the provider sends for message id `id`
StatusEvent(id, status) == [id |-> id, status |-> status, errors |-> <<>>]

\* the messages a status callback can find: those holding a provider id
Correlated(S) == {i \in 1..Len(S.messages) : S.messages[i].whatsapp_message_id # NoId}

RECURSIVE ApplyAll(_, _, _)
\* the status events `statuses` for message id `id`, handled one after another
ApplyAll(S, id, statuses) ==
    IF statuses = <<>> THEN S
    ELSE ApplyAll(process_status_update(S, StatusEvent(id, Head(statuses))),
                  id, Tail(statuses))

\* C1: in every reachable state every campaign has sent_count + failed_count
\* <= target_count, delivered_count <= sent_count and read_count <=
\* delivered_count.
C1_CounterInvariant ==
    \A c \in DOMAIN db.campaigns :
      /\ db.campaigns[c].sent_count + db.campaigns[c].failed_count
            <= db.campaigns[c].target_count
      /\ db.campaigns[c].delivered_count <= db.campaigns[c].sent_count
      /\ db.campaigns[c].read_count <= db.campaigns[c].delivered_count

\* C2: handling the same status event (same provider message id, same status
\* among sent, delivered, read, failed) a second time leaves every message
\* and every campaign counter as the first handling left them.
C2_StatusEventIdempotent ==
    \A i \in Correlated(db), status \in {"sent", "delivered", "read", "failed"} :
      LET e == StatusEvent(db.messages[i].whatsapp_message_id, status)
          once == process_status_update(db, e)
          twice == process_status_update(once, e)
      IN  /\ twice.messages = once.messages
          /\ twice.campaigns = once.campaigns

StatusPermutations ==
    {<<"sent", "delivered", "read">>, <<"sent", "read", "delivered">>,
     <<"delivered", "sent", "read">>, <<"delivered", "read", "sent">>,
     <<"read", "sent", "delivered">>, <<"read", "delivered", "sent">>}

\* C3: for a message the Dispatcher has sent, the events sent, delivered and
\* read handled in any order give the message status and the campaign
\* counters that the order sent, delivered, read gives.
C3_OrderIndependent ==
    \A i \in Correlated(db), p \in StatusPermutations :
      db.messages[i].status = "sent" =>
        LET id == db.messages[i].whatsapp_message_id
            inOrder == ApplyAll(db, id, <<"sent", "delivered", "read">>)
            permuted == ApplyAll(db, id, p)
        IN  /\ permuted.messages = inOrder.messages
            /\ permuted.campaigns = inOrder.campaigns

\* C4: once a message is in status read or failed, every later status event
\* for it, whatever its status value, changes neither a message nor a
\* campaign counter.
C4_TerminalStates ==
    \A i \in Correlated(db), status \in StatusValues :
      db.messages[i].status \in {"read", "failed"} =>
        LET after == process_status_update(
                        db, StatusEvent(db.messages[i].whatsapp_message_id, status))
        IN  /\ after.messages = db.messages
            /\ after.campaigns = db.campaigns

\* C5: a read event for a message in status sent that was never marked
\* delivered (no callback has been handled yet) is discarded: the database
\* stays as it is.
C5_ReadBeforeDelivered ==
    \A i \in Correlated(db) :
      (events = 0 /\ db.messages[i].status = "sent") =>
        process_status_update(
            db, StatusEvent(db.messages[i].whatsapp_message_id, "read")) = db

\* C6: a sent event for a message already in status sent, delivered or read
\* changes nothing: the status does not move back to sent and no counter
\* changes.
C6_SentIsNoOp ==
    \A i \in Correlated(db) :
      db.messages[i].status \in {"sent", "delivered", "read"} =>
        process_status_update(
            db, StatusEvent(db.messages[i].whatsapp_message_id, "sent")) = db

\* the members that get a Message when `request` is handled in database S
Recipients(S, request) ==
    LET after == create_campaign_and_queue(S, request).db
    IN  {after.messages[k].member_id :
            k \in (Len(S.messages) + 1)..Len(after.messages)}

\* C7: whatever the request, CreateCampaign creates no Message for a member
\* whose opt-in flag is false when it is called.
C7_OptedOutExcluded ==
    \A request \in Requests :
      \A m \in Recipients(db, request) : db.members[m].is_opted_in

\* C7 witness: a campaign exists that has no Message for some member, so it
\* was created while that member was opted out.
C7_Witness ==
    \E c \in DOMAIN db.campaigns, m \in Members :
      \A i \in 1..Len(db.messages) :
        ~(db.messages[i].campaign_id = c /\ db.messages[i].member_id = m)

\* the stop commands in several letter cases
StopCommandTexts == {
    <<"s","t","o","p">>, <<"S","T","O","P">>, <<"S","t","o","p">>,
    <<"s","T","o","P">>,
    <<"u","n","s","u","b","s","c","r","i","b","e">>,
    <<"U","N","S","U","B","S","C","R","I","B","E">>,
    <<"U","n","s","u","b","s","c","r","i","b","E">>,
    <<"c","a","n","c","e","l">>, <<"C","A","N","C","E","L">>,
    <<"c","a","N","c","e","l">>,
    <<"e","n","d">>, <<"E","N","D">>, <<"e","N","d">>,
    <<"q","u","i","t">>, <<"Q","U","I","T">>, <<"Q","u","i","T">> }

\* the message objects that carry a stop command: each text alone, and one
\* text together with every shape of reply payload
StopCommandEvents ==
    [from : {NoId}, text : StopCommandTexts, interactive : {""}, button : {FALSE}]
    \cup [from : {NoId}, text : {<<"S","T","O","P">>},
          interactive : {"", "button_reply", "list_reply", "nfm_reply"},
          button : BOOLEAN]

\* C8: an inbound message from a known member whose text is a stop command
\* in any letter case leaves the member opted out and the optouts table one
\* row longer, whether the member was opted in or not.
C8_StopOptsOut ==
    \A m \in Members, e \in StopCommandEvents :
      LET after == process_incoming_message(db, [e EXCEPT !.from = m])
      IN  /\ ~after.members[m].is_opted_in
          /\ Len(after.optouts) = Len(db.optouts) + 1

\* C8 witness: a member has two optout rows, the second one written when the
\* flag was already false.
C8_Witness ==
    \E a, b \in DOMAIN db.optouts :
      /\ a < b
      /\ db.optouts[a].member_id = db.optouts[b].member_id
      /\ ~db.members[db.optouts[b].member_id].is_opted_in

\* a member satisfies the request's filter when each filter that is set
\* equals the member's attribute
SatisfiesFilter(member, request) ==
    /\ request.status_filter \in {NULL, member.status}
    /\ request.city_filter \in {NULL, member.city}
    /\ request.plan_filter \in {NULL, member.plan}

\* the recipients the request selects: filter satisfied and opted in
Eligible(S, request) ==
    {m \in DOMAIN S.members :
        S.members[m].is_opted_in /\ SatisfiesFilter(S.members[m], request)}

\* C9: the Messages CreateCampaign creates are exactly those of the members
\* that satisfy the request's filter and are opted in, and target_count is
\* their number.
C9_FilterSelectsRecipients ==
    \A request \in Requests :
      LET r == create_campaign_and_queue(db, request)
      IN  /\ Recipients(db, request) = Eligible(db, request)
          /\ r.error = NULL =>
               r.db.campaigns[Len(r.db.campaigns)].target_count
                 = Cardinality(Eligible(db, request))

\* C10: when no member is eligible, CreateCampaign fails with an error,
\* leaves the database unchanged and starts no dispatch.
C10_NoEligibleRecipients ==
    \A request \in Requests :
      Eligible(db, request) = {} =>
        LET r == create_campaign_and_queue(db, request)
        IN  /\ r.error # NULL
            /\ r.db = db
            /\ r.dispatch = NoId

\* ------------------------------------------------------------- dispatch
\* The rows of campaign c
MessagesOf(S, c) == {i \in 1..Len(S.messages) : S.messages[i].campaign_id = c}

\* The provider accepted the send of a pass that meets `case`
Accepted(case) == ~case.raised /\ case.outcome \in {"ok", "ok_no_id"}

\* Campaign c is as create_campaign_and_queue left it
NewlyCreated(S, c) ==
    /\ S.campaigns[c].status = "queued"
    /\ S.campaigns[c].sent_count = 0
    /\ S.campaigns[c].failed_count = 0
    /\ \A i \in MessagesOf(S, c) : S.messages[i].status = "queued"

\* C12: one uninterrupted run of the dispatcher on a newly created campaign
\* leaves, whatever the provider answers, every accepted message sent and
\* every other message failed, sent_count and failed_count equal to the two
\* numbers, no message queued and the campaign's status "sent".
C12_DispatchCompletes ==
    \A c \in DOMAIN db.campaigns :
      NewlyCreated(db, c) =>
        \A cases \in [MessagesOf(db, c) -> SendCases] :
          LET after == send_campaign_messages(db, c, cases, provider + 1)
              ok == {i \in MessagesOf(db, c) : Accepted(cases[i])}
          IN  /\ \A i \in MessagesOf(db, c) :
                   after.messages[i].status = IF i \in ok THEN "sent" ELSE "failed"
              /\ after.campaigns[c].sent_count = Cardinality(ok)
              /\ after.campaigns[c].failed_count =
                   Cardinality(MessagesOf(db, c) \ ok)
              /\ after.campaigns[c].status = "sent"

\* A run has completed with one message accepted and one refused, and no
\* callback has been handled
C12_Witness ==
    \E c \in DOMAIN db.campaigns :
      /\ events = 0
      /\ db.campaigns[c].status = "sent"
      /\ db.campaigns[c].sent_count = 1
      /\ db.campaigns[c].failed_count = 1
      /\ \A w \in Workers : tasks[w].pc = "idle"

\* C13: a further run of the dispatcher on a campaign leaves every message
\* that is no longer queued exactly as it is (status, provider id, error),
\* counts nothing for it, and touches no other campaign: the two outcome
\* counters grow by the number of queued messages only.
C13_RedispatchSkipsProcessed ==
    \A c \in DOMAIN db.campaigns :
      \A cases \in [MessagesOf(db, c) -> SendCases] :
        LET after == send_campaign_messages(db, c, cases, provider + 1)
            queued == {i \in MessagesOf(db, c) : db.messages[i].status = "queued"}
        IN  /\ \A i \in 1..Len(db.messages) :
                 i \notin queued => after.messages[i] = db.messages[i]
            /\ after.campaigns[c].sent_count + after.campaigns[c].failed_count
                 = db.campaigns[c].sent_count + db.campaigns[c].failed_count
                   + Cardinality(queued)
            /\ queued = {} =>
                 after.campaigns[c] = [db.campaigns[c] EXCEPT !.status = "sent"]
            /\ \A d \in DOMAIN db.campaigns :
                 d # c => after.campaigns[d] = db.campaigns[d]

\* A dispatch is requested again for a campaign whose run has completed:
\* one of its messages failed and one has been delivered
C13_Witness ==
    \E w \in Workers :
      /\ tasks[w].pc = "added"
      /\ tasks[w].campaign_id \in DOMAIN db.campaigns
      /\ db.campaigns[tasks[w].campaign_id].status = "sent"
      /\ \E i, j \in MessagesOf(db, tasks[w].campaign_id) :
           db.messages[i].status = "failed" /\ db.messages[j].status = "delivered"

\* The passes in which the provider call fails: an error result, whether
\* from an HTTP error or from an exception caught in the client, and an
\* exception raised in the loop body
FailedCases == {case \in SendCases : ~Accepted(case)}

\* C14: a failed provider call stays inside the dispatcher.  The pass that
\* meets it marks its own message failed with an error detail, adds exactly
\* one to failed_count and changes nothing else; the run goes on through the
\* rest of the snapshot and ends with the campaign's status "sent".
C14_SendFailureContained ==
    \A c \in DOMAIN db.campaigns :
      /\ \A i \in MessagesOf(db, c), case \in FailedCases :
           db.messages[i].status = "queued" =>
             LET res == send_template_message_sync(case.outcome, provider + 1)
                 after == SendOne(db, c, i, res, case.raised)
             IN  /\ after.messages[i] =
                      [db.messages[i] EXCEPT !.status = "failed",
                                             !.error_message = after.messages[i].error_message]
                 /\ after.messages[i].error_message # NULL
                 /\ after.campaigns =
                      [db.campaigns EXCEPT ![c].failed_count = @ + 1]
                 /\ \A j \in 1..Len(db.messages) :
                      j # i => after.messages[j] = db.messages[j]
                 /\ after.members = db.members
                 /\ after.responses = db.responses
                 /\ after.optouts = db.optouts
      /\ \A cases \in [MessagesOf(db, c) -> SendCases] :
           LET after == send_campaign_messages(db, c, cases, provider + 1)
           IN  /\ after.campaigns[c].status = "sent"
               /\ \A i \in MessagesOf(db, c) : after.messages[i].status # "queued"

\* The send of a campaign's first message failed, the run went on to send
\* the second and completed
C14_Witness ==
    \E c \in DOMAIN db.campaigns :
      \E i, j \in MessagesOf(db, c) :
        /\ i < j
        /\ db.messages[i].status = "failed"
        /\ db.messages[i].error_message # NULL
        /\ db.messages[i].whatsapp_message_id = NoId
        /\ db.messages[j].status = "sent"
        /\ db.campaigns[c].failed_count = 1
        /\ db.campaigns[c].status = "sent"

\* The ids a status event can carry: those the provider has issued, and one
\* it has not
ProviderIds == 1..(provider + 1)

\* C15: a status event whose provider id matches no message is dropped:
\* the handler's commit leaves the whole database as it was.
C15_UnknownIdDiscarded ==
    \A id \in ProviderIds, status \in StatusValues, errors \in {<<>>, <<"error">>} :
      (\A i \in 1..Len(db.messages) : db.messages[i].whatsapp_message_id # id)
        => process_status_update(db, [id |-> id, status |-> status,
                                      errors |-> errors]) = db

\* The budget of webhook objects is spent with a sent message on record,
\* and no message, counter, member, response or opt-out has moved
C15_Witness ==
    /\ events = MaxEvents
    /\ Len(db.messages) >= 2
    /\ \A i \in 1..Len(db.messages) :
         db.messages[i].status \in {"queued", "sent"}
    /\ \E i \in 1..Len(db.messages) : db.messages[i].whatsapp_message_id # NoId
    /\ \A c \in DOMAIN db.campaigns :
         db.campaigns[c].delivered_count = 0 /\ db.campaigns[c].read_count = 0
           /\ db.campaigns[c].failed_count = 0
    /\ db.responses = <<>>
    /\ db.optouts = <<>>

\* ------------------------------------------------------- inbound replies
\* Message i has been sent with success: it has left "queued" by a send the
\* provider accepted.  A message the dispatcher marked failed has no
\* provider id; one that a callback marked failed keeps its id.
SuccessfullySent(S, i) ==
    \/ S.messages[i].status \in {"sent", "delivered", "read"}
    \/ S.messages[i].whatsapp_message_id # NoId

\* The message objects that carry a structured reply and no stop command
ReplyEvents ==
    [from : {NoId}, text : {<<>>, <<"h","i">>},
     interactive : {"button_reply", "list_reply"}, button : {FALSE}]
    \cup [from : {NoId}, text : {<<>>}, interactive : {""}, button : {TRUE}]

\* C16: a structured reply from a member to whom no message has been sent
\* with success creates no Response and changes nothing else.
C16_ReplyWithoutOutbound ==
    \A m \in Members, e \in ReplyEvents :
      (\A i \in 1..Len(db.messages) :
          db.messages[i].member_id = m => ~SuccessfullySent(db, i))
        => process_incoming_message(db, [e EXCEPT !.from = m]) = db

\* C17: a Response is attributed to its member's latest successful send and
\* carries that message's campaign id; it is never attributed to a message
\* that is queued or whose send failed.
C17_ResponseAttribution ==
    \A m \in Members, e \in ReplyEvents :
      LET after == process_incoming_message(db, [e EXCEPT !.from = m])
          new == after.responses[Len(after.responses)]
      IN  Len(after.responses) > Len(db.responses) =>
            /\ new.member_id = m
            /\ db.messages[new.message_id].member_id = m
            /\ new.campaign_id = db.messages[new.message_id].campaign_id
            /\ SuccessfullySent(db, new.message_id)
            /\ \A j \in 1..Len(db.messages) :
                 db.messages[j].member_id = m =>
                   db.messages[j].whatsapp_message_id
                     <= db.messages[new.message_id].whatsapp_message_id

\* C18: a stop command never produces a Response, with or without a button
\* or list payload and whatever was sent to the member before: the handler
\* sets the member's opt-in to false, appends one OptOut and changes
\* nothing else.
C18_StopNeverCorrelated ==
    \A m \in Members, e \in StopCommandEvents :
      process_incoming_message(db, [e EXCEPT !.from = m])
        = [db EXCEPT !.members[m].is_opted_in = FALSE,
                     !.optouts = Append(@, [member_id |-> m,
                                            phone_number |-> m,
                                            reason |-> "stop"])]

\* A member with a sent message has opted out, and no Response exists
C18_Witness ==
    \E i \in 1..Len(db.messages), o \in DOMAIN db.optouts :
      /\ db.messages[i].status \in {"sent", "delivered", "read"}
      /\ db.optouts[o].member_id = db.messages[i].member_id
      /\ ~db.members[db.messages[i].member_id].is_opted_in
      /\ db.responses = <<>>

\* C20: no callback moves a message out of "queued".  Whatever provider id
\* and status a status event carries, and whatever an inbound message
\* carries, the handler leaves every queued message as it is.
C20_OnlyDispatcherLeavesQueued ==
    \A i \in 1..Len(db.messages) :
      db.messages[i].status = "queued" =>
        /\ \A status_data \in StatusEvents :
             process_status_update(db, status_data).messages[i] = db.messages[i]
        /\ \A message_data \in MessageEvents :
             process_incoming_message(db, message_data).messages[i] = db.messages[i]

\* A message is still queued while a callback has moved another message of
\* its campaign on to delivered or read
C20_Witness ==
    \E i, j \in 1..Len(db.messages) :
      /\ db.messages[i].campaign_id = db.messages[j].campaign_id
      /\ db.messages[i].status = "queued"
      /\ db.messages[j].status \in {"delivered", "read"}

\* --------------------------------------------------- campaign creation
\* Campaign c has exactly target_count messages, one for each of as many
\* members
FannedOut(S, c) ==
    /\ Cardinality(MessagesOf(S, c)) = S.campaigns[c].target_count
    /\ Cardinality({S.messages[i].member_id : i \in MessagesOf(S, c)})
         = S.campaigns[c].target_count

\* C11: campaign creation is all or nothing.  After every step, a crash in
\* the middle of POST /send-template included, every campaign in the
\* database has exactly target_count messages, one for each recipient, every
\* message belongs to a campaign in the database, and every message a step
\* adds is queued.
C11_CreationAtomic ==
    [][/\ \A c \in DOMAIN db'.campaigns : FannedOut(db', c)
       /\ \A i \in 1..Len(db'.messages) :
            /\ db'.messages[i].campaign_id \in DOMAIN db'.campaigns
            /\ i > Len(db.messages) => db'.messages[i].status = "queued"]_vars

\* The server has died in the middle of a creation, after the flush of the
\* Campaign row: the transaction is rolled back and the database holds no
\* campaign and no message
C11_Witness ==
    /\ session.pc = "rolled_back"
    /\ db.campaigns = <<>>
    /\ db.messages = <<>>

\* ------------------------------------------------------ malformed events
\* The item is a status or message object of the right shape
WellShaped(item) == item.kind # "change" /\ item.shape = "dict"

\* The item is an event with a required field missing or of the wrong shape
Malformed(item) ==
    \/ item.shape # "dict"
    \/ item.kind = "status"
         /\ (item.status_data.id = NoId \/ item.status_data.status = "")
    \/ item.kind = "message" /\ item.message_data.from = NoId

RECURSIVE HandleEach(_, _)
\* The database after every event of the payload that has the right shape
\* has been handled, in the order of the payload
HandleEach(S, items) ==
    IF items = <<>> THEN S
    ELSE IF WellShaped(Head(items))
    THEN HandleEach(RunOne(S, Head(items)), Tail(items))
    ELSE HandleEach(S, Tail(items))

\* C19: a malformed event of a webhook payload is dropped without any
\* change of state, and it holds up no other event of the payload: every
\* well-formed status and message event before and after it is handled.
C19_MalformedIsolated ==
    /\ \A item \in BatchItems :
         (Malformed(item) /\ WellShaped(item)) => RunOne(db, item) = db
    /\ \A items \in Batches :
         RunTasks(db, webhook_post(items)) = HandleEach(db, items)

\* ------------------------------------------------------ campaign status
\* The place of a campaign status on the path queued -> sending -> sent
StatusRank(status) ==
    CASE status = "queued" -> 0
      [] status = "sending" -> 1
      [] OTHER -> 2

\* C21: the status of a campaign only advances along queued -> sending ->
\* sent: no step moves it backward, and a step that changes it is a step of
\* the dispatcher, which starts or finishes a run.
C21_CampaignStatusForward ==
    [][\A c \in DOMAIN db.campaigns :
         /\ StatusRank(db'.campaigns[c].status) >= StatusRank(db.campaigns[c].status)
         /\ db'.campaigns[c].status # db.campaigns[c].status => tasks' # tasks]_vars

\* ---------------------------------------------------------------- opt-out
\* C22: no step of campaign creation, of the dispatcher or of a callback
\* handler sets the opt-in of a member back from false to true, and a
\* creation that begins takes no member whose opt-in is false.
C22_OptOutIrreversible ==
    [][/\ \A m \in Members :
            ~db.members[m].is_opted_in => ~db'.members[m].is_opted_in
       /\ (session.pc # "adding" /\ session'.pc = "adding") =>
            \A k \in 1..Len(session'.todo) :
              db.members[session'.todo[k]].is_opted_in]_vars

\* A member has sent a stop command and is opted out, and a creation in
\* progress has added its rows with none for the member
C22_Witness ==
    /\ session.pc = "adding"
    /\ session.todo = <<>>
    /\ \E o \in DOMAIN db.optouts :
         /\ ~db.members[db.optouts[o].member_id].is_opted_in
         /\ \A k \in 1..Len(session.rows) :
              session.rows[k].member_id # db.optouts[o].member_id

\* ----------------------------------------------------------- correlation
\* C26: a message has a provider id exactly when the dispatcher recorded a
\* successful send for it: no message is sent, delivered or read without
\* one, and no message that is queued has one.
C26_ProviderIdWithSent ==
    \A i \in 1..Len(db.messages) :
      /\ db.messages[i].status \in {"sent", "delivered", "read"}
           => db.messages[i].whatsapp_message_id # NoId
      /\ db.messages[i].status = "queued"
           => db.messages[i].whatsapp_message_id = NoId

\* The step is a pass of worker w's loop that hands message i to the
\* provider
SendStep(w, i) ==
    /\ tasks[w].pc = "loop"
    /\ tasks[w].msgs # <<>>
    /\ Head(tasks[w].msgs) = i
    /\ tasks'[w].pc = "loop"
    /\ tasks'[w].msgs = Tail(tasks[w].msgs)

\* C27: once a stop command has set a member's opt-in to false, the
\* dispatcher hands no message of the member to the provider, not even a
\* message that was queued before the opt-out.
C27_NoSendAfterOptOut ==
    [][\A w \in DOMAIN tasks, i \in 1..Len(db.messages) :
         SendStep(w, i) => db.members[db.messages[i].member_id].is_opted_in]_vars

\* -------------------------------------------------------- crash recovery
\* The database a run of the dispatcher on campaign c leaves when the server
\* dies after k passes of its loop
CrashedRun(S, c, cases, k) ==
    LET sending == MarkSending(S, c)
    IN  SendLoop(sending, c, SubSeq(QueuedMessages(sending, c), 1, k), cases,
                 provider + 1)

\* The rows of campaign c that have left "queued"
Processed(S, c) == {i \in MessagesOf(S, c) : S.messages[i].status # "queued"}

\* C25: when a run of the dispatcher on a new campaign dies between two
\* passes of its loop, every message that has left "queued" is counted
\* (sent_count + failed_count is the number of messages no longer queued).
\* A further run then handles the messages still queued and no other, and
\* leaves no message queued and the campaign's status "sent"; so does a
\* further run from every state a dead server has left behind.
C25_DispatchCrashRecovery ==
    \A c \in DOMAIN db.campaigns :
      /\ ((\A w \in DOMAIN tasks : tasks[w] = IdleTask)
            /\ db.campaigns[c].status = "sending") =>
           \A cases \in [MessagesOf(db, c) -> SendCases] :
             LET again == send_campaign_messages(db, c, cases, provider + 1)
             IN  /\ \A i \in Processed(db, c) : again.messages[i] = db.messages[i]
                 /\ Processed(again, c) = MessagesOf(db, c)
                 /\ again.campaigns[c].status = "sent"
      /\ NewlyCreated(db, c) =>
        \A cases \in [MessagesOf(db, c) -> SendCases],
           k \in 0..Cardinality(MessagesOf(db, c)) :
          LET crashed == CrashedRun(db, c, cases, k)
              again == send_campaign_messages(crashed, c, cases,
                                              provider + 1 + k)
          IN  /\ Cardinality(Processed(crashed, c)) = k
              /\ crashed.campaigns[c].sent_count + crashed.campaigns[c].failed_count
                   = k
              /\ \A i \in Processed(crashed, c) :
                   again.messages[i] = crashed.messages[i]
              /\ Processed(again, c) = MessagesOf(db, c)
              /\ again.campaigns[c].sent_count + again.campaigns[c].failed_count
                   = Cardinality(MessagesOf(db, c))
              /\ again.campaigns[c].status = "sent"

\* The server has died in the middle of a run: no task is left, the
\* campaign is "sending", one of its messages is processed and counted and
\* the other is still queued; no callback has been handled
C25_Witness ==
    \E c \in DOMAIN db.campaigns :
      /\ events = 0
      /\ \A w \in DOMAIN tasks : tasks[w] = IdleTask
      /\ db.campaigns[c].status = "sending"
      /\ Cardinality(Processed(db, c)) = 1
      /\ db.campaigns[c].sent_count + db.campaigns[c].failed_count = 1
      /\ \E i \in MessagesOf(db, c) : db.messages[i].status = "queued"

\* ------------------------------------------------- concurrent dispatch
\* C28: when two runs of the dispatcher on one campaign overlap, every
\* message is handed to the provider at most once, so each send step takes a
\* message that is still queued, and is counted at most once, so sent_count
\* and failed_count together never exceed the number of messages.
C28_SentAtMostOnce ==
    [][/\ \A w \in DOMAIN tasks, i \in 1..Len(db.messages) :
            SendStep(w, i) => db.messages[i].status = "queued"
       /\ \A c \in DOMAIN db'.campaigns :
            db'.campaigns[c].sent_count + db'.campaigns[c].failed_count
              <= Cardinality(MessagesOf(db', c))]_vars

\* --------------------------------------------------------------- counters
\* The step is the commit of handler thread h
CommitStep(h) == calls[h].pc = "loaded" /\ calls'[h].pc = "idle"

\* What the handler of thread h added to the counters it read
Added(h) ==
    LET R == calls[h].read
        A == process_status_update(R, calls[h].status_data)
    IN  [c \in DOMAIN R.campaigns |->
           [delivered_count |-> A.campaigns[c].delivered_count
                                  - R.campaigns[c].delivered_count,
            read_count |-> A.campaigns[c].read_count - R.campaigns[c].read_count,
            failed_count |-> A.campaigns[c].failed_count
                               - R.campaigns[c].failed_count]]

\* C23: after its creation the target_count of a campaign never changes,
\* and no step lowers one of its four counters.
C23_CountersMonotonic ==
    [][\A c \in DOMAIN db.campaigns :
         /\ db'.campaigns[c].target_count = db.campaigns[c].target_count
         /\ db'.campaigns[c].sent_count >= db.campaigns[c].sent_count
         /\ db'.campaigns[c].delivered_count >= db.campaigns[c].delivered_count
         /\ db'.campaigns[c].read_count >= db.campaigns[c].read_count
         /\ db'.campaigns[c].failed_count >= db.campaigns[c].failed_count]_vars

\* C24: counter increments are atomic.  When handlers with sessions of
\* their own overlap, the commit of each adds its increment to the value the
\* counter has at the commit: none is lost and none overwrites another, so a
\* counter's final value is the number of increments applied to it.
C24_IncrementsAtomic ==
    [][\A h \in Handlers :
         CommitStep(h) =>
           \A c \in DOMAIN db.campaigns :
             /\ db'.campaigns[c].delivered_count
                  = db.campaigns[c].delivered_count + Added(h)[c].delivered_count
             /\ db'.campaigns[c].read_count
                  = db.campaigns[c].read_count + Added(h)[c].read_count
             /\ db'.campaigns[c].failed_count
                  = db.campaigns[c].failed_count + Added(h)[c].failed_count]_vars

\* ----------------------------------------------------------- events store
\* The last n elements of a sequence, all of it when it is shorter
LastOf(seq, n) ==
    [k \in 1..(IF n < Len(seq) THEN n ELSE Len(seq)) |->
        seq[Len(seq) - (IF n < Len(seq) THEN n ELSE Len(seq)) + k]]

\* The arrival numbers first..last in order
Arrivals(first, last) == [k \in 1..(last - first + 1) |-> first + k - 1]

\* min(max(limit, 1), 200)
ClampedLimit(limit) ==
    LET low == IF limit > 1 THEN limit ELSE 1
    IN  IF low < 200 THEN low ELSE 200

\* C29: after any number of push_event calls the buffer holds at most
\* MAX_EVENTS events, which are the most recently pushed ones in the order of
\* their arrival, and get_events(limit) returns the last
\* min(max(limit, 1), 200) of them in that order.
C29_EventBufferBounded ==
    /\ Len(server.EVENTS) <= MAX_EVENTS
    /\ server.EVENTS =
         Arrivals(IF server.pushed > MAX_EVENTS
                  THEN server.pushed - MAX_EVENTS + 1 ELSE 1,
                  server.pushed)
    /\ \A limit \in Limits :
         get_events(server.EVENTS, limit)
           = LastOf(server.EVENTS, ClampedLimit(limit))
    /\ \/ server.reply = <<>>
       \/ \E limit \in Limits :
            server.reply = LastOf(server.EVENTS, ClampedLimit(limit))

\* More than MAX_EVENTS events have been pushed, the oldest are gone, and
\* GET /events with a limit above 200 has returned the 200 newest
C29_Witness ==
    /\ server.pushed > MAX_EVENTS
    /\ Len(server.reply) = 200
    /\ server.reply[200] = server.pushed
    /\ server.EVENTS[1] > 1

====
